---- MODULE Spec2Model ----
(***************************************************************************)
(* Model of claude_code_cli: the CLI driver (__main__.py) and the          *)
(* Braintrust/OTLP logging setup (braintrust_logging.py).                  *)
(*                                                                         *)
(* Three specifications share the variables:                               *)
(*   Spec / FairSpec  one run of main(): argument check, telemetry setup,  *)
(*                    run_basic_query or run_demo_tools, shutdown;         *)
(*   LibSpec          arbitrary sequences of configure_logging, context    *)
(*                    shutdown and log_event calls in one process;         *)
(*   PrettySpec       pretty_json applied to a payload.                    *)
(***************************************************************************)
EXTENDS Integers, Sequences, FiniteSets, TLC

VARIABLES
    pc,               \* position of the process
    command,          \* subcommand selected on the command line
    env,              \* which environment variables are set (non-empty)
    telemetry,        \* how configure_logging_from_env ended in main
    failure,          \* exception propagating out of asyncio.run, or "none"
    exitStatus,       \* process exit status once pc = "exited", else -1
    sessionOpen,      \* a streaming session is currently open
    sessionOpened,    \* a streaming session was opened at some point
    promptSent,       \* the prompt was handed to the agent runtime
    serverRegistered, \* create_sdk_mcp_server was called
    received,         \* messages streamed by the runtime, in arrival order
    stdout,           \* lines written by print()
    log,              \* event types passed to log_event, in call order
    stderr,           \* records written by console (stream) handlers
    lastTool,         \* last tool callback invocation and its response
    toolCalls,        \* number of tool callbacks invoked
    handlers,         \* handlers of logging.getLogger("claude_code_cli")
    propagate,        \* logger.propagate
    rootHandlers,     \* number of handlers on the root logger
    providers,        \* LoggerProvider objects created so far
    contexts,         \* BraintrustLoggingContext objects returned so far
    payload,          \* argument of pretty_json (PrettySpec)
    rendered          \* outcome of pretty_json (PrettySpec)

vars == <<pc, command, env, telemetry, failure, exitStatus, sessionOpen,
          sessionOpened, promptSent, serverRegistered, received, stdout, log,
          stderr, lastTool, toolCalls, handlers, propagate, rootHandlers,
          providers, contexts, payload, rendered>>

mainVars == <<command, env, telemetry, failure, exitStatus, sessionOpen,
              sessionOpened, promptSent, serverRegistered, received, stdout,
              lastTool, toolCalls, rootHandlers>>

loggingVars == <<log, stderr, handlers, propagate, providers, contexts>>

prettyVars == <<payload, rendered>>

(***************************************************************************)
(* Bounds of the model.                                                    *)
(***************************************************************************)
MaxStream == 3        \* size of one session's traffic: every streamed message,
                      \* every content block and every tool callback counts one
MaxConfigure == 3     \* configure_logging calls in one process (LibSpec)
MaxLibEvents == 2     \* events logged in LibSpec
MaxPayloadLen == 3    \* leaves of a pretty_json payload (PrettySpec)

Last(s) == s[Len(s)]

RECURSIVE Count(_, _)
Count(s, x) ==
    IF s = <<>> THEN 0
    ELSE (IF Head(s) = x THEN 1 ELSE 0) + Count(Tail(s), x)

(***************************************************************************)
(* pretty_json.  A payload is the sequence of its leaves in the order the  *)
(* encoder visits them.  Two leaves are special: an object the encoder     *)
(* has no rule for (TypeError) and a reference back to an enclosing        *)
(* container (ValueError: Circular reference detected).                    *)
(***************************************************************************)
Unserializable == "<object>"
SelfReference == "<self>"

RECURSIVE json_dumps(_)
json_dumps(data) ==
    IF data = <<>> THEN "ok"
    ELSE IF Head(data) = Unserializable THEN "TypeError"
    ELSE IF Head(data) = SelfReference THEN "ValueError"
    ELSE json_dumps(Tail(data))

pretty_json(data) ==
    IF json_dumps(data) = "ok"
    THEN [raised |-> "none", text |-> <<"json", data>>]
    ELSE IF json_dumps(data) = "TypeError"
    THEN [raised |-> "none", text |-> <<"str", data>>]
    ELSE [raised |-> json_dumps(data), text |-> <<>>]

(***************************************************************************)
(* Streamed messages.  What the SDK decodes from the runtime's JSON output *)
(* is always serializable.                                                 *)
(***************************************************************************)
SdkPayload == <<"str">>

Blocks ==
    { [kind |-> "text", data |-> <<>>],
      [kind |-> "tool_use", data |-> SdkPayload],
      [kind |-> "tool_result", data |-> SdkPayload],
      [kind |-> "thinking", data |-> <<>>] }

RECURSIVE SeqsUpTo(_, _)
SeqsUpTo(S, n) ==
    IF n = 0 THEN {<<>>}
    ELSE LET shorter == SeqsUpTo(S, n - 1)
         IN  shorter \cup {Append(s, x) : s \in shorter, x \in S}

Messages(maxBlocks) ==
    { [kind |-> "assistant", content |-> c] : c \in SeqsUpTo(Blocks, maxBlocks) }
    \cup { [kind |-> "system", content |-> <<>>],
           [kind |-> "result", content |-> <<>>],
           [kind |-> "user", content |-> <<>>] }

RECURSIVE BlocksIn(_)
BlocksIn(msgs) ==
    IF msgs = <<>> THEN 0
    ELSE Len(Head(msgs).content) + BlocksIn(Tail(msgs))

(***************************************************************************)
(* handle_message: what one call prints and logs.  The result lists the    *)
(* printed line kinds and the logged event types in order; raised names an *)
(* exception that escapes.                                                 *)
(***************************************************************************)
RECURSIVE handle_blocks(_, _)
handle_blocks(content, acc) ==
    IF content = <<>> THEN acc
    ELSE LET block == Head(content)
             pj == pretty_json(block.data)
         IN
         IF block.kind = "text"
         THEN handle_blocks(Tail(content),
                  [acc EXCEPT !.prints = Append(@, "Claude"),
                              !.events = Append(@, "assistant.text")])
         ELSE IF block.kind = "tool_use"
         THEN IF pj.raised # "none"
              THEN [acc EXCEPT !.raised = pj.raised]
              ELSE handle_blocks(Tail(content),
                       [acc EXCEPT !.prints = Append(@, "tool-call"),
                                   !.events = Append(@, "assistant.tool_request")])
         ELSE IF block.kind = "tool_result"
         THEN IF pj.raised # "none"
              THEN [acc EXCEPT !.raised = pj.raised]
              ELSE handle_blocks(Tail(content),
                       [acc EXCEPT !.prints = Append(@, "tool-result"),
                                   !.events = Append(@, "assistant.tool_result")])
         ELSE handle_blocks(Tail(content), acc)

NothingHandled == [prints |-> <<>>, events |-> <<>>, raised |-> "none"]

handle_message(message) ==
    IF message.kind = "assistant"
    THEN handle_blocks(message.content, NothingHandled)
    ELSE IF message.kind = "system"
    THEN [prints |-> <<"system">>, events |-> <<"system.message">>, raised |-> "none"]
    ELSE IF message.kind = "result"
    THEN [prints |-> <<"result">>, events |-> <<"result.summary">>, raised |-> "none"]
    ELSE [prints |-> <<"message">>, events |-> <<"message.unknown">>, raised |-> "none"]


(***************************************************************************)
(* Demo data and tool callbacks of run_demo_tools.                         *)
(***************************************************************************)
None == "<None>"
UserIds == {None, "", "casey-123", "other-456"}
ToolNames == {"lookup_user_profile", "list_open_invoices", "generate_finance_summary"}

\* Python truthiness of args.get("user_id"): None and "" are falsy
Truthy(value) == value # None /\ value # ""

sample_user ==
    [id |-> "casey-123", name |-> "Casey Doe", preferred_language |-> "en",
     tier |-> "pro"]

open_invoices ==
    << [id |-> "INV-001", amount |-> 120000, status |-> "due",
        due_date |-> "2024-09-15"],
       [id |-> "INV-002", amount |-> 58050, status |-> "overdue",
        due_date |-> "2024-07-30"] >>

\* leaves in the order json.dumps(sort_keys=True) visits them
UserLeaves(u) == <<u.id, u.name, u.preferred_language, u.tier>>

RECURSIVE InvoiceLeaves(_)
InvoiceLeaves(invoices) ==
    IF invoices = <<>> THEN <<>>
    ELSE LET i == Head(invoices)
         IN  <<ToString(i.amount), i.due_date, i.id, i.status>>
             \o InvoiceLeaves(Tail(invoices))

RECURSIVE SumAmounts(_)
SumAmounts(invoices) ==
    IF invoices = <<>> THEN 0
    ELSE Head(invoices).amount + SumAmounts(Tail(invoices))

TextContent(text) == <<[type |-> "text", text |-> text]>>

\* a variant that reports an unknown customer without the error flag
lookup_user_profile_unflagged(user_id) ==
    IF Truthy(user_id) /\ user_id # sample_user.id
    THEN [content |-> TextContent(<<"No customer found for id", user_id>>)]
    ELSE [content |-> TextContent(pretty_json(UserLeaves(sample_user)).text)]

lookup_user_profile(user_id) ==
    IF Truthy(user_id) /\ user_id # sample_user.id
    THEN [content |-> TextContent(<<"No customer found for id", user_id>>),
          is_error |-> TRUE]
    ELSE [content |-> TextContent(pretty_json(UserLeaves(sample_user)).text)]

list_open_invoices(user_id) ==
    IF Truthy(user_id) /\ user_id # sample_user.id
    THEN [content |-> TextContent(<<"No open invoices for customer", user_id>>)]
    ELSE [content |-> TextContent(pretty_json(InvoiceLeaves(open_invoices)).text)]

generate_finance_summary(user_id) ==
    [content |-> TextContent(<<"summary", sample_user.name,
                               SumAmounts(open_invoices), Len(open_invoices),
                               Last(open_invoices).id>>)]

\* the exception a tool callback lets escape, or "none"
ToolRaises(tool) ==
    IF tool = "lookup_user_profile"
    THEN pretty_json(UserLeaves(sample_user)).raised
    ELSE IF tool = "list_open_invoices"
    THEN pretty_json(InvoiceLeaves(open_invoices)).raised
    ELSE "none"

ToolResponse(tool, user_id) ==
    IF tool = "lookup_user_profile" THEN lookup_user_profile(user_id)
    ELSE IF tool = "list_open_invoices" THEN list_open_invoices(user_id)
    ELSE generate_finance_summary(user_id)

NoTool == [name |-> "none", user_id |-> None, raised |-> "none",
           response |-> [content |-> <<>>]]

(***************************************************************************)
(* The logging module's state: the named logger's handlers, the root       *)
(* logger, and the LoggerProvider objects.                                 *)
(***************************************************************************)
NewProvider == [calls |-> <<>>, emitted |-> <<>>]

HasKind(hs, kind) == \E i \in DOMAIN hs : hs[i].kind = kind

RECURSIVE CountKind(_, _)
CountKind(hs, kind) ==
    IF hs = <<>> THEN 0
    ELSE (IF Head(hs).kind = kind THEN 1 ELSE 0) + CountKind(Tail(hs), kind)

\* a variant without the check-before-attach guards
attach_handlers_unguarded(hs, p) ==
    hs \o << [kind |-> "LoggingHandler", provider |-> p],
             [kind |-> "StreamHandler", provider |-> 0] >>

\* configure_logging's handler attachment for the provider it just created
attach_handlers(hs, p) ==
    LET withRemote ==
            IF ~HasKind(hs, "LoggingHandler")
            THEN Append(hs, [kind |-> "LoggingHandler", provider |-> p])
            ELSE hs
    IN  IF ~HasKind(withRemote, "StreamHandler")
        THEN Append(withRemote, [kind |-> "StreamHandler", provider |-> 0])
        ELSE withRemote

configure_logging ==
    /\ providers' = Append(providers, NewProvider)
    /\ handlers' = attach_handlers(handlers, Len(providers) + 1)
    /\ propagate' = FALSE
    /\ contexts' = Append(contexts, [provider |-> Len(providers) + 1])

\* a variant that skips the release when the flush raises
shutdown_calls_no_finally(flushRaises) ==
    IF flushRaises THEN <<"force_flush:raised">>
    ELSE <<"force_flush", "shutdown">>

\* _shutdown: force_flush() inside try, shutdown() inside finally
shutdown_calls(flushRaises) ==
    IF flushRaises THEN <<"force_flush:raised", "shutdown">>
    ELSE <<"force_flush", "shutdown">>

\* logging_context.shutdown(); provider 0 is the fallback's lambda: None
context_shutdown(ctx, flushRaises) ==
    IF ctx.provider = 0 THEN providers
    ELSE [providers EXCEPT ![ctx.provider].calls = @ \o shutdown_calls(flushRaises)]

\* one record handed to every handler of the named logger
RECURSIVE emit(_, _, _)
emit(provs, hs, type) ==
    IF hs = <<>> THEN provs
    ELSE LET h == Head(hs)
         IN  emit(IF h.kind = "LoggingHandler"
                  THEN [provs EXCEPT ![h.provider].emitted = Append(@, type)]
                  ELSE provs,
                  Tail(hs), type)

RECURSIVE emit_all(_, _, _)
emit_all(provs, hs, types) ==
    IF types = <<>> THEN provs
    ELSE emit_all(emit(provs, hs, Head(types)), hs, Tail(types))

ConsoleLines(hs, prop, root) ==
    CountKind(hs, "StreamHandler") + (IF prop THEN root ELSE 0)

RECURSIVE console_out(_, _)
console_out(types, n) ==
    IF types = <<>> THEN <<>>
    ELSE [i \in 1..n |-> Head(types)] \o console_out(Tail(types), n)

\* log_event called once per element of types, in order
log_events(types) ==
    /\ log' = log \o types
    /\ providers' = emit_all(providers, handlers, types)
    /\ stderr' = stderr \o console_out(types, ConsoleLines(handlers, propagate, rootHandlers))


(***************************************************************************)
(* main(): one action per step between suspension points.                  *)
(***************************************************************************)
Commands == {"none", "query", "demo"}
EnvNames == {"ANTHROPIC_API_KEY", "BRAINTRUST_API_KEY", "BRAINTRUST_PROJECT_ID"}

StartEvent(cmd) == IF cmd = "query" THEN "query.start" ELSE "demo.start"
CompleteEvent(cmd) == IF cmd = "query" THEN "query.complete" ELSE "demo.complete"

Init ==
    /\ pc = "parse"
    /\ command \in Commands
    /\ env \in [EnvNames -> BOOLEAN]
    /\ telemetry = "unconfigured"
    /\ failure = "none"
    /\ exitStatus = -1
    /\ sessionOpen = FALSE
    /\ sessionOpened = FALSE
    /\ promptSent = FALSE
    /\ serverRegistered = FALSE
    /\ received = <<>>
    /\ stdout = <<>>
    /\ log = <<>>
    /\ stderr = <<>>
    /\ lastTool = NoTool
    /\ toolCalls = 0
    /\ handlers = <<>>
    /\ propagate = TRUE
    /\ rootHandlers = 0
    /\ providers = <<>>
    /\ contexts = <<>>
    /\ payload = <<>>
    /\ rendered = [raised |-> "pending", text |-> <<>>]

\* ensure_command_selected: no subcommand prints the help and exits 1
ensure_command_selected ==
    /\ pc = "parse"
    /\ IF command = "none"
       THEN /\ stdout' = Append(stdout, "help")
            /\ pc' = "exited"
            /\ exitStatus' = 1
       ELSE /\ pc' = "configure"
            /\ UNCHANGED <<stdout, exitStatus>>
    /\ UNCHANGED <<command, env, telemetry, failure, sessionOpen, sessionOpened,
                   promptSent, serverRegistered, received, lastTool, toolCalls,
                   rootHandlers>>
    /\ UNCHANGED loggingVars
    /\ UNCHANGED prettyVars

\* resolve_config_from_env raises MissingBraintrustConfig
MissingConfig(e) == ~e["BRAINTRUST_API_KEY"] \/ ~e["BRAINTRUST_PROJECT_ID"]

\* a variant of main's except arms that lets the exception end the process
telemetry_fallback_reraise(outcome, line) ==
    /\ telemetry' = outcome
    /\ failure' = outcome
    /\ exitStatus' = 1
    /\ pc' = "exited"
    /\ UNCHANGED <<rootHandlers, stderr, contexts>>

\* main's except arms: basicConfig, one warning or error line through the
\* named logger, a context whose shutdown is a no-op
telemetry_fallback(outcome, line) ==
    /\ telemetry' = outcome
    /\ rootHandlers' = IF rootHandlers = 0 THEN 1 ELSE rootHandlers
    /\ stderr' = stderr \o console_out(<<line>>,
                     ConsoleLines(handlers, propagate, rootHandlers'))
    /\ contexts' = Append(contexts, [provider |-> 0])
    /\ pc' = "run"
    /\ UNCHANGED <<failure, exitStatus>>

ConfigureMissing ==
    /\ pc = "configure"
    /\ MissingConfig(env)
    /\ telemetry_fallback("missing", "warning: Braintrust logging disabled")
    /\ UNCHANGED <<command, env, sessionOpen, sessionOpened, promptSent,
                   serverRegistered, received, stdout, lastTool, toolCalls>>
    /\ UNCHANGED <<log, handlers, propagate, providers>>
    /\ UNCHANGED prettyVars

\* configure_logging raises while building the provider, exporter or handler
ConfigureFails ==
    /\ pc = "configure"
    /\ ~MissingConfig(env)
    /\ telemetry_fallback("error", "error: Failed to configure Braintrust logging")
    /\ UNCHANGED <<command, env, sessionOpen, sessionOpened, promptSent,
                   serverRegistered, received, stdout, lastTool, toolCalls>>
    /\ UNCHANGED <<log, handlers, propagate, providers>>
    /\ UNCHANGED prettyVars

ConfigureOk ==
    /\ pc = "configure"
    /\ ~MissingConfig(env)
    /\ configure_logging
    /\ telemetry' = "ok"
    /\ pc' = "run"
    /\ UNCHANGED <<command, env, failure, exitStatus, sessionOpen, sessionOpened,
                   promptSent, serverRegistered, received, stdout, lastTool,
                   toolCalls, rootHandlers>>
    /\ UNCHANGED <<log, stderr>>
    /\ UNCHANGED prettyVars

\* a variant that accepts a missing key
ensure_api_key_unchecked(e) == TRUE

\* ensure_api_key returns normally
ensure_api_key(e) == e["ANTHROPIC_API_KEY"]

\* run_basic_query / run_demo_tools up to the first await
StartRun ==
    /\ pc = "run"
    /\ IF ensure_api_key(env)
       THEN /\ serverRegistered' = (command = "demo")
            /\ log_events(<<StartEvent(command)>>)
            /\ pc' = "opening"
            /\ UNCHANGED failure
       ELSE /\ failure' = "SystemExit"
            /\ pc' = "finally"
            /\ UNCHANGED <<serverRegistered, log, providers, stderr>>
    /\ UNCHANGED <<command, env, telemetry, exitStatus, sessionOpen, sessionOpened,
                   promptSent, received, stdout, lastTool, toolCalls, rootHandlers>>
    /\ UNCHANGED <<handlers, propagate, contexts>>
    /\ UNCHANGED prettyVars

\* query(prompt, options) / ClaudeSDKClient.__aenter__ and client.query(prompt)
OpenSession ==
    /\ pc = "opening"
    /\ sessionOpen' = TRUE
    /\ sessionOpened' = TRUE
    /\ promptSent' = TRUE
    /\ pc' = "streaming"
    /\ UNCHANGED <<command, env, telemetry, failure, exitStatus, serverRegistered,
                   received, stdout, lastTool, toolCalls, rootHandlers>>
    /\ UNCHANGED loggingVars
    /\ UNCHANGED prettyVars

\* the runtime cannot be started
OpenSessionFails ==
    /\ pc = "opening"
    /\ failure' = "RuntimeError"
    /\ pc' = "finally"
    /\ UNCHANGED <<command, env, telemetry, exitStatus, sessionOpen, sessionOpened,
                   promptSent, serverRegistered, received, stdout, lastTool,
                   toolCalls, rootHandlers>>
    /\ UNCHANGED loggingVars
    /\ UNCHANGED prettyVars

\* traffic of the session so far
StreamSize == Len(received) + BlocksIn(received) + toolCalls

\* one iteration of the async for: the runtime yields a message and
\* handle_message runs on it
StreamMessage ==
    /\ pc = "streaming"
    /\ StreamSize < MaxStream
    /\ \E message \in Messages(MaxStream - StreamSize - 1) :
         LET handled == handle_message(message)
         IN  /\ received' = Append(received, message)
             /\ stdout' = stdout \o handled.prints
             /\ log_events(handled.events)
             /\ IF handled.raised = "none"
                THEN UNCHANGED <<pc, failure, sessionOpen>>
                ELSE /\ failure' = handled.raised
                     /\ sessionOpen' = FALSE
                     /\ pc' = "finally"
    /\ UNCHANGED <<command, env, telemetry, exitStatus, sessionOpened, promptSent,
                   serverRegistered, lastTool, toolCalls, rootHandlers>>
    /\ UNCHANGED <<handlers, propagate, contexts>>
    /\ UNCHANGED prettyVars

\* the runtime invokes one of the registered tool callbacks
ToolCall ==
    /\ pc = "streaming"
    /\ command = "demo"
    /\ StreamSize < MaxStream
    /\ \E tool \in ToolNames, user_id \in UserIds :
         /\ log_events(<<"tool." \o tool>>)
         /\ lastTool' = [name |-> tool, user_id |-> user_id,
                         raised |-> ToolRaises(tool),
                         response |-> ToolResponse(tool, user_id)]
    /\ toolCalls' = toolCalls + 1
    /\ UNCHANGED <<pc, command, env, telemetry, failure, exitStatus, sessionOpen,
                   sessionOpened, promptSent, serverRegistered, received, stdout,
                   rootHandlers>>
    /\ UNCHANGED <<handlers, propagate, contexts>>
    /\ UNCHANGED prettyVars

\* the iterator raises; async with closes the demo session on the way out
StreamFails ==
    /\ pc = "streaming"
    /\ failure' = "RuntimeError"
    /\ sessionOpen' = FALSE
    /\ pc' = "finally"
    /\ UNCHANGED <<command, env, telemetry, exitStatus, sessionOpened, promptSent,
                   serverRegistered, received, stdout, lastTool, toolCalls,
                   rootHandlers>>
    /\ UNCHANGED loggingVars
    /\ UNCHANGED prettyVars

\* a variant that forgets the completion event
completion_events_none(cmd) == <<>>

\* the event logged after the loop
completion_events(cmd) == <<CompleteEvent(cmd)>>

\* run_basic_query: the stream is exhausted, query.complete follows at once
QueryStreamEnds ==
    /\ pc = "streaming"
    /\ command = "query"
    /\ sessionOpen' = FALSE
    /\ log_events(completion_events(command))
    /\ pc' = "finally"
    /\ UNCHANGED <<command, env, telemetry, failure, exitStatus, sessionOpened,
                   promptSent, serverRegistered, received, stdout, lastTool,
                   toolCalls, rootHandlers>>
    /\ UNCHANGED <<handlers, propagate, contexts>>
    /\ UNCHANGED prettyVars

\* run_demo_tools: receive_response() is exhausted, __aexit__ is awaited
DemoStreamEnds ==
    /\ pc = "streaming"
    /\ command = "demo"
    /\ pc' = "closing"
    /\ UNCHANGED <<command, env, telemetry, failure, exitStatus, sessionOpen,
                   sessionOpened, promptSent, serverRegistered, received, stdout,
                   lastTool, toolCalls, rootHandlers>>
    /\ UNCHANGED loggingVars
    /\ UNCHANGED prettyVars

\* __aexit__ returns, demo.complete is logged
CloseSession ==
    /\ pc = "closing"
    /\ sessionOpen' = FALSE
    /\ log_events(completion_events(command))
    /\ pc' = "finally"
    /\ UNCHANGED <<command, env, telemetry, failure, exitStatus, sessionOpened,
                   promptSent, serverRegistered, received, stdout, lastTool,
                   toolCalls, rootHandlers>>
    /\ UNCHANGED <<handlers, propagate, contexts>>
    /\ UNCHANGED prettyVars

\* __aexit__ raises while disconnecting
CloseSessionFails ==
    /\ pc = "closing"
    /\ sessionOpen' = FALSE
    /\ failure' = "RuntimeError"
    /\ pc' = "finally"
    /\ UNCHANGED <<command, env, telemetry, exitStatus, sessionOpened, promptSent,
                   serverRegistered, received, stdout, lastTool, toolCalls,
                   rootHandlers>>
    /\ UNCHANGED loggingVars
    /\ UNCHANGED prettyVars

\* main's finally: logging_context.shutdown(), then the process ends
Shutdown(flushRaises) ==
    /\ pc = "finally"
    /\ providers' = context_shutdown(Last(contexts), flushRaises)
    /\ exitStatus' = IF failure = "none" /\ ~flushRaises THEN 0 ELSE 1
    /\ pc' = "exited"
    /\ UNCHANGED <<command, env, telemetry, failure, sessionOpen, sessionOpened,
                   promptSent, serverRegistered, received, stdout, lastTool,
                   toolCalls, rootHandlers>>
    /\ UNCHANGED <<log, stderr, handlers, propagate, contexts>>
    /\ UNCHANGED prettyVars

ShutdownFlushed == Shutdown(FALSE)

\* force_flush raises; only a context bound to a provider flushes
ShutdownFlushFails ==
    /\ pc = "finally"
    /\ Last(contexts).provider # 0
    /\ Shutdown(TRUE)

Next ==
    \/ ensure_command_selected
    \/ ConfigureMissing
    \/ ConfigureFails
    \/ ConfigureOk
    \/ StartRun
    \/ OpenSession
    \/ OpenSessionFails
    \/ StreamMessage
    \/ ToolCall
    \/ StreamFails
    \/ QueryStreamEnds
    \/ DemoStreamEnds
    \/ CloseSession
    \/ CloseSessionFails
    \/ ShutdownFlushed
    \/ ShutdownFlushFails

Spec == Init /\ [][Next]_vars

\* the event loop runs every step that is ready; the stream is finite
FairSpec == Spec /\ WF_vars(Next)


(***************************************************************************)
(* LibSpec: the logging module used on its own, configure_logging called   *)
(* any number of times in one process.                                     *)
(***************************************************************************)
LibEventTypes == {"query.start", "assistant.text"}

LibInit ==
    /\ pc = "lib"
    /\ command = "none"
    /\ env = [n \in EnvNames |-> TRUE]
    /\ telemetry = "unconfigured"
    /\ failure = "none"
    /\ exitStatus = -1
    /\ sessionOpen = FALSE
    /\ sessionOpened = FALSE
    /\ promptSent = FALSE
    /\ serverRegistered = FALSE
    /\ received = <<>>
    /\ stdout = <<>>
    /\ log = <<>>
    /\ stderr = <<>>
    /\ lastTool = NoTool
    /\ toolCalls = 0
    /\ handlers = <<>>
    /\ propagate = TRUE
    /\ rootHandlers = 0
    /\ providers = <<>>
    /\ contexts = <<>>
    /\ payload = <<>>
    /\ rendered = [raised |-> "pending", text |-> <<>>]

LibConfigure ==
    /\ pc = "lib"
    /\ Len(contexts) < MaxConfigure
    /\ configure_logging
    /\ UNCHANGED <<pc, log, stderr>>
    /\ UNCHANGED mainVars
    /\ UNCHANGED prettyVars

\* the shutdown hook of any context returned so far
LibShutdown ==
    /\ pc = "lib"
    /\ \E c \in DOMAIN contexts, flushRaises \in BOOLEAN :
         /\ Count(providers[contexts[c].provider].calls, "shutdown") = 0
         /\ providers' = context_shutdown(contexts[c], flushRaises)
    /\ UNCHANGED <<pc, log, stderr, handlers, propagate, contexts>>
    /\ UNCHANGED mainVars
    /\ UNCHANGED prettyVars

\* log_event through the logger of a returned context
LibLogEvent ==
    /\ pc = "lib"
    /\ contexts # <<>>
    /\ Len(log) < MaxLibEvents
    /\ \E type \in LibEventTypes : log_events(<<type>>)
    /\ UNCHANGED <<pc, handlers, propagate, contexts>>
    /\ UNCHANGED mainVars
    /\ UNCHANGED prettyVars

LibNext == LibConfigure \/ LibShutdown \/ LibLogEvent

LibSpec == LibInit /\ [][LibNext]_vars

(***************************************************************************)
(* PrettySpec: pretty_json applied to one payload.                         *)
(***************************************************************************)
Leaves == {"str", "1.5", Unserializable, SelfReference}

PrettyInit ==
    /\ pc = "pretty"
    /\ payload \in SeqsUpTo(Leaves, MaxPayloadLen)
    /\ command = "none"
    /\ env = [n \in EnvNames |-> TRUE]
    /\ telemetry = "unconfigured"
    /\ failure = "none"
    /\ exitStatus = -1
    /\ sessionOpen = FALSE
    /\ sessionOpened = FALSE
    /\ promptSent = FALSE
    /\ serverRegistered = FALSE
    /\ received = <<>>
    /\ stdout = <<>>
    /\ log = <<>>
    /\ stderr = <<>>
    /\ lastTool = NoTool
    /\ toolCalls = 0
    /\ handlers = <<>>
    /\ propagate = TRUE
    /\ rootHandlers = 0
    /\ providers = <<>>
    /\ contexts = <<>>
    /\ rendered = [raised |-> "pending", text |-> <<>>]

ApplyPrettyJson ==
    /\ pc = "pretty"
    /\ rendered' = pretty_json(payload)
    /\ pc' = "rendered"
    /\ UNCHANGED payload
    /\ UNCHANGED mainVars
    /\ UNCHANGED loggingVars

PrettyNext == ApplyPrettyJson

PrettySpec == PrettyInit /\ [][PrettyNext]_vars


(***************************************************************************)
(* Properties.                                                             *)
(***************************************************************************)
MessageEventTypes ==
    {"assistant.text", "assistant.tool_request", "assistant.tool_result",
     "system.message", "result.summary", "message.unknown"}

ToolEventTypes == {"tool." \o t : t \in ToolNames}

IsMessageEvent(e) == e \in MessageEventTypes

MessageEvents == SelectSeq(log, IsMessageEvent)

\* the event type the documented mapping gives a variant
MappedEventType(kind) ==
    IF kind = "text" THEN "assistant.text"
    ELSE IF kind = "tool_use" THEN "assistant.tool_request"
    ELSE IF kind = "tool_result" THEN "assistant.tool_result"
    ELSE IF kind = "system" THEN "system.message"
    ELSE IF kind = "result" THEN "result.summary"
    ELSE "message.unknown"

\* the event types the mapping allows for one streamed message
MappedEventTypes(message) ==
    IF message.kind = "assistant" /\ message.content # <<>>
    THEN {MappedEventType(message.content[i].kind) : i \in DOMAIN message.content}
    ELSE {MappedEventType(message.kind)}

Completed == Count(log, CompleteEvent(command)) = 1

\* records handed to the exporting providers so far
RECURSIVE TotalEmitted(_)
TotalEmitted(provs) ==
    IF provs = <<>> THEN 0
    ELSE Len(Head(provs).emitted) + TotalEmitted(Tail(provs))

\* C1: the message events of the event log are exactly one per streamed
\* message, in arrival order (none dropped, none logged twice).
C1_OneEventPerMessage ==
    /\ Len(MessageEvents) = Len(received)
    /\ \A i \in DOMAIN received :
         i <= Len(MessageEvents) => MessageEvents[i] \in MappedEventTypes(received[i])

\* C2: one handle_message call produces exactly one console print and exactly
\* one log call, whose event type is the one mapped to the message's variant
\* (message.unknown for anything that is not one of the five named variants).
C2_OnePrintOneLogPerCall ==
    [][received' # received =>
         /\ Len(stdout') = Len(stdout) + 1
         /\ Len(log') = Len(log) + 1
         /\ Last(log') \in MappedEventTypes(Last(received'))]_vars

\* C3: with no subcommand, or with ANTHROPIC_API_KEY unset or empty, the
\* process exits non-zero and never opens a session, sends a prompt,
\* registers the tool server or logs query.start / demo.start; no record is
\* handed to the exporter either.
C3_FailFast ==
    (command = "none" \/ ~env["ANTHROPIC_API_KEY"]) =>
       /\ ~sessionOpen
       /\ ~sessionOpened
       /\ ~promptSent
       /\ ~serverRegistered
       /\ received = <<>>
       /\ Count(log, "query.start") = 0
       /\ Count(log, "demo.start") = 0
       /\ TotalEmitted(providers) = 0
       /\ pc = "exited" => exitStatus # 0

C3_Witness ==
    /\ pc = "exited"
    /\ command = "query"
    /\ ~env["ANTHROPIC_API_KEY"]
    /\ failure = "SystemExit"
    /\ exitStatus = 1

\* C4: once telemetry was configured successfully, by the time the process
\* has ended the provider was flushed (attempted) first and then released,
\* exactly once each, whether the run completed or failed and whether or
\* not the flush raised; nothing is released before the run is over.
C4_ExporterReleasedOnce ==
    telemetry = "ok" =>
       LET calls == providers[Last(contexts).provider].calls
       IN  /\ pc = "exited" =>
                calls \in { <<"force_flush", "shutdown">>,
                            <<"force_flush:raised", "shutdown">> }
           /\ pc # "exited" => calls = <<>>

C4_Witness ==
    /\ pc = "exited"
    /\ telemetry = "ok"
    /\ failure = "RuntimeError"
    /\ received # <<>>
    /\ providers[Last(contexts).provider].calls = <<"force_flush:raised", "shutdown">>

\* C6: when BRAINTRUST_API_KEY or BRAINTRUST_PROJECT_ID is unset, or
\* configuring telemetry raises, main does not propagate the error: the
\* context is a console-only logger with a no-op shutdown, every event is
\* written once to the console, and the selected subcommand runs to its
\* completion event unless the run itself fails.
C6_TelemetryNeverBlocks ==
    /\ (MissingConfig(env) /\ pc \notin {"parse", "configure"} /\ command # "none")
          => telemetry = "missing"
    /\ telemetry \in {"missing", "error"} =>
          /\ failure \notin {"missing", "error"}
          /\ Last(contexts).provider = 0
          /\ providers = <<>>
          /\ ~HasKind(handlers, "LoggingHandler")
          /\ rootHandlers = 1
          /\ Len(stderr) = Len(log) + 1
          /\ pc = "exited" =>
                /\ exitStatus = 0 <=> failure = "none"
                /\ failure = "none" => Completed

C6_Witness ==
    /\ pc = "exited"
    /\ telemetry = "missing"
    /\ ~env["BRAINTRUST_API_KEY"]
    /\ ~env["BRAINTRUST_PROJECT_ID"]
    /\ received # <<>>
    /\ Completed
    /\ exitStatus = 0

ErrorFlagged(response) == "is_error" \in DOMAIN response /\ response.is_error

ProfileText == <<"json", <<"casey-123", "Casey Doe", "en", "pro">>>>

InvoicesText ==
    <<"json", <<"120000", "2024-09-15", "INV-001", "due",
                "58050", "2024-07-30", "INV-002", "overdue">>>>

\* what the two lookup tools return when the id counts as matching or not
LookupOutcome(t, matching) ==
    /\ t.raised = "none"
    /\ Len(t.response.content) = 1
    /\ t.name = "lookup_user_profile" =>
          IF matching
          THEN ~ErrorFlagged(t.response) /\ t.response.content[1].text = ProfileText
          ELSE /\ ErrorFlagged(t.response)
               /\ t.response.content[1].text = <<"No customer found for id", t.user_id>>
    /\ t.name = "list_open_invoices" =>
          /\ ~ErrorFlagged(t.response)
          /\ IF matching
             THEN t.response.content[1].text = InvoicesText
             ELSE t.response.content[1].text = <<"No open invoices for customer", t.user_id>>

\* C7 as stated: the id matches when it equals casey-123 or is omitted;
\* every supplied id that differs is a mismatch.
C7_AsStated ==
    lastTool.name \in {"lookup_user_profile", "list_open_invoices"} =>
       LookupOutcome(lastTool, lastTool.user_id \in {None, "casey-123"})

\* C7 amended: the id matches when it equals casey-123, is omitted or is the
\* empty string; lookup_user_profile then returns the fixed profile without
\* an error flag and otherwise an error-flagged response, list_open_invoices
\* returns the fixed invoice list and otherwise an unflagged empty-result
\* message; neither raises.
C7_LookupTools ==
    lastTool.name \in {"lookup_user_profile", "list_open_invoices"} =>
       LookupOutcome(lastTool, lastTool.user_id \in {None, "", "casey-123"})

C7_Witness ==
    /\ lastTool.name = "lookup_user_profile"
    /\ lastTool.user_id = ""
    /\ ~ErrorFlagged(lastTool.response)

C8_Bracket ==
    /\ \A i \in DOMAIN log :
         log[i] \in MessageEventTypes \cup ToolEventTypes \cup {CompleteEvent(command)}
            => i > 1 /\ log[1] = StartEvent(command)
    /\ Count(log, StartEvent(command)) <= 1
    /\ Count(log, CompleteEvent(command)) <= 1
    /\ Count(log, CompleteEvent(command)) = 1 =>
          /\ Last(log) = CompleteEvent(command)
          /\ sessionOpened
          /\ ~sessionOpen
          /\ pc \in {"finally", "exited"}
          /\ failure = "none"
    /\ (pc = "exited" /\ command # "none" /\ failure = "none") => Completed

\* C8: the start event precedes every message and tool event, the
\* completion event follows all of them and the closing of the session, is
\* logged at most once and never when the run failed; a run whose stream
\* ends without a failure has logged it exactly once when the process ends,
\* and every run that starts streaming eventually logs it or fails.
C8_StartCompleteBracket ==
    /\ []C8_Bracket
    /\ (pc = "streaming") ~> (Completed \/ failure # "none")

C8_Witness ==
    /\ pc = "exited"
    /\ command = "demo"
    /\ received # <<>>
    /\ lastTool.name = "list_open_invoices"
    /\ Count(log, "tool.generate_finance_summary") = 0
    /\ Last(log) = "demo.complete"

\* C9: whatever failure the JSON encoder reports, pretty_json returns a
\* string rendering and raises nothing.
C9_PrettyJsonNeverRaises ==
    pc = "rendered" => rendered.raised = "none" /\ rendered.text # <<>>

\* C5: after one or more configure_logging calls the named logger carries
\* exactly one remote handler and exactly one console handler, and every
\* logged event is output once by each kind.
C5_HandlersAttachedOnce ==
    contexts # <<>> =>
       /\ CountKind(handlers, "LoggingHandler") = 1
       /\ CountKind(handlers, "StreamHandler") = 1
       /\ Len(stderr) = Len(log)
       /\ TotalEmitted(providers) = Len(log)

C5_Witness ==
    /\ Len(contexts) = MaxConfigure
    /\ Len(log) = MaxLibEvents
    /\ Len(handlers) = 2

\* C10: the remote handler of the named logger is bound to the provider of
\* the most recent configure_logging call.
C10_HandlerBoundToLatestProvider ==
    contexts # <<>> =>
       \A i \in DOMAIN handlers :
          handlers[i].kind = "LoggingHandler"
             => handlers[i].provider = Last(contexts).provider

====
